---- MODULE Spec2Model ----
(***************************************************************************)
(* Email-Verification-API: the verification pipeline (verifyEmail), the    *)
(* SMTP mailbox probe (verifyMailbox) and the batch endpoint               *)
(* (POST /verify/batch) of src/index.js.  src/unnamed/part_000 holds the   *)
(* same three with request plumbing around them (rate limit, API key, a    *)
(* try/catch around the batch loop), which is not modelled.                *)
(*                                                                         *)
(* Text is a sequence of one-character strings, so that the probe's        *)
(* buffering, line splitting and reply-code parsing are computed as the    *)
(* code computes them.                                                     *)
(***************************************************************************)
EXTENDS Integers, Sequences, FiniteSets, TLC

\* ------------------------------------------------------------------ bounds
\* Longest batch the model submits.
MaxBatch == 2
\* Longest buffer content (after LiveBuffer) the model lets the server build.
MaxBuf == 5

\* ------------------------------------------------------------------- text
CR == "\r"
LF == "\n"
CRLF == <<CR, LF>>

Digits == <<"0", "1", "2", "3", "4", "5", "6", "7", "8", "9">>

IsDigit(c) == \E i \in 1..10 : Digits[i] = c

DigitVal(c) == (CHOOSE i \in 1..10 : Digits[i] = c) - 1

\* parseInt's result for text with no leading number.
NaN == -1

\* String.prototype.endsWith('\r\n')
EndsWithCRLF(s) == Len(s) >= 2 /\ s[Len(s) - 1] = CR /\ s[Len(s)] = LF

\* String.prototype.split('\r\n'): the pieces between the separators, the
\* piece after the last separator (possibly empty) included.
RECURSIVE SplitFrom(_, _, _)
SplitFrom(s, i, cur) ==
    IF i > Len(s) THEN <<cur>>
    ELSE IF i < Len(s) /\ s[i] = CR /\ s[i + 1] = LF
         THEN <<cur>> \o SplitFrom(s, i + 2, <<>>)
         ELSE SplitFrom(s, i + 1, Append(cur, s[i]))

SplitCRLF(s) == SplitFrom(s, 1, <<>>)

\* .filter((line) => line): the empty string is falsy.
FilterNonEmpty(lines) == SelectSeq(lines, LAMBDA l : l /= <<>>)

\* String.prototype.substring(0, 3)
Substring03(s) == SubSeq(s, 1, IF Len(s) < 3 THEN Len(s) ELSE 3)

\* parseInt(s, 10) on text without sign characters: leading white space is
\* skipped, the longest run of decimal digits is read, NaN when there is
\* none.
RECURSIVE SkipSpace(_)
SkipSpace(s) ==
    IF s /= <<>> /\ Head(s) \in {" ", "\t", CR, LF} THEN SkipSpace(Tail(s)) ELSE s

RECURSIVE DigitsValue(_, _)
DigitsValue(s, acc) ==
    IF s /= <<>> /\ IsDigit(Head(s))
    THEN DigitsValue(Tail(s), 10 * acc + DigitVal(Head(s)))
    ELSE acc

ParseInt(s) ==
    LET t == SkipSpace(s)
    IN  IF t /= <<>> /\ IsDigit(Head(t)) THEN DigitsValue(t, 0) ELSE NaN

\* `${code}` in a template literal: the decimal digits of a number, "NaN"
\* for NaN.
RECURSIVE NatToText(_)
NatToText(n) ==
    IF n < 10 THEN <<Digits[n + 1]>>
    ELSE Append(NatToText(n \div 10), Digits[(n % 10) + 1])

\* CodeToText with the usual rejection code written out.
CodeToText_Fixed(code) == <<"5", "5", "0">>

CodeToText(code) == IF code = NaN THEN <<"N", "a", "N">> ELSE NatToText(code)

\* The last non-empty line of the buffer, <<>> standing for undefined
\* (responseLines[responseLines.length - 1] of an empty array).
LastLineOf(buf) ==
    LET responseLines == FilterNonEmpty(SplitCRLF(buf))
    IN  IF responseLines = <<>> THEN <<>> ELSE responseLines[Len(responseLines)]

HasLastLine(buf) == FilterNonEmpty(SplitCRLF(buf)) /= <<>>

\* What the data handler can still read of a buffer it did not clear: it
\* reads only whether the buffer ends in CRLF and its last non-empty line,
\* so earlier lines and empty lines are dropped from the stored value.  The
\* handler itself always runs on the unshortened buffer + data.
LiveBuffer(buf) ==
    LET parts == SplitCRLF(buf)
        tail  == parts[Len(parts)]
        done  == FilterNonEmpty(SubSeq(parts, 1, Len(parts) - 1))
        last  == IF done = <<>> THEN <<>> ELSE done[Len(done)] \o CRLF
    IN  IF done = <<>> /\ Len(parts) > 1 /\ tail = <<>> THEN CRLF
        ELSE last \o tail

\* --------------------------------------------------------------- constants
\* Known hard-to-verify domains
knownHardDomains == {"gmail.com", "yahoo.com", "outlook.com", "hotmail.com", "live.com"}

\* The fixed sender address of the probe.
fromEmail == <<"test", "example.com">>

\* emails.length > 1000
BatchLimit == 1000

\* A reason string: its fixed text and the value its template inserts.
Reason(text, arg) == [text |-> text, arg |-> arg]

\* ----------------------------------------------------------------- inputs
\* An address is held as the pieces email.split('@') gives: "" is <<"">>,
\* "not-an-email" is <<"not-an-email">>, "user@gmail.com" is
\* <<"user", "gmail.com">>.
EmailInputs ==
    { <<"">>, <<"not-an-email">>, <<"user", "example.com">>, <<"user", "gmail.com">> }

\* A batch entry that is no string: the one-element list ["user@example.com"],
\* written as a marker followed by the pieces of the address it holds.
ListMarker == "[list]"

ListOf(e) == <<ListMarker>> \o e

\* The entries of req.body.emails: JSON strings, and a JSON list.
EntryInputs == EmailInputs \cup { ListOf(<<"user", "example.com">>) }

\* typeof email === 'string'
IsString(e) == e[1] /= ListMarker

\* String(email): what a regular expression's test() is run on.  A list of
\* one string coerces to that string.
StringOf(e) == IF IsString(e) THEN e ELSE Tail(e)

\* !email: the empty string is falsy.
Falsy(e) == e = <<"">>

\* validate() of the email-validator package: one '@' between a non-empty
\* local part and a non-empty domain.
validateEmail(e) == Len(e) = 2 /\ e[1] /= "" /\ e[2] /= ""

\* A truthy entry that is no string and whose string form is an address
\* gets past the pattern test, which coerces it, and then has no split
\* method: email.split throws a TypeError (in validate(), and on line 123
\* of verifyEmail were validate() to return).
SplitThrows(e) == ~Falsy(e) /\ ~IsString(e) /\ validateEmail(StringOf(e))

\* email.split('@')[1]: undefined when the address holds no '@'.
DomainOf(e) == IF Len(e) >= 2 THEN e[2] ELSE "undefined"

\* PassesSyntax with the checks left out.
PassesSyntax_Unchecked(e) == TRUE

\* if (!email) ... if (!validateEmail(email)) ...: whether the address gets
\* past both checks.
PassesSyntax(e) == ~Falsy(e) /\ validateEmail(e)

\* SkipRequested with the flag ignored.
SkipRequested_Ignored(flag) == FALSE

\* skip_smtp === true
SkipRequested(flag) == flag = TRUE

\* What dns.resolveMx may return.
MxReplies ==
    { <<>>,
      <<[exchange |-> "mx1", priority |-> 10], [exchange |-> "mx2", priority |-> 20]>>,
      <<[exchange |-> "mx2", priority |-> 20], [exchange |-> "mx1", priority |-> 10]>> }

\* What one 'data' event may carry: whole reply lines, a line without its
\* terminator, and a terminator alone.
Chunks ==
    { <<"2", "2", "0", CR, LF>>, <<"2", "5", "0", CR, LF>>, <<"5", "5", "0", CR, LF>>,
      <<"2", "2", "1", CR, LF>>, <<"2", "5", "0">>, CRLF }

RECURSIVE SeqsUpTo(_, _)
SeqsUpTo(S, n) ==
    IF n = 0 THEN { <<>> }
    ELSE LET shorter == SeqsUpTo(S, n - 1)
         IN  shorter \cup { Append(q, x) : q \in { r \in shorter : Len(r) = n - 1 }, x \in S }

\* A list of n empty strings.
LongList(n) == [k \in 1..n |-> <<"">>]

\* req.body.emails: a short list of any entries, a list as long as the
\* limit and one longer by one entry, or a value that is no list.
EmailsBodies ==
    { [isArray |-> TRUE, items |-> q] : q \in SeqsUpTo(EntryInputs, MaxBatch) }
        \cup { [isArray |-> TRUE, items |-> LongList(n)] : n \in {BatchLimit, BatchLimit + 1} }
        \cup { [isArray |-> FALSE, items |-> <<>>] }

\* ------------------------------------------------------------------ state
VARIABLES
    emails,         \* req.body.emails
    skip_smtp,      \* req.body.skip_smtp
    pc,             \* where the request is: request, loop, mx, probe, ret,
                    \* responded, crashed (uncaught exception in a
                    \* socket callback), rejected (the handler's promise
                    \* rejected: nothing answers the request)
    i,              \* position of the for-of loop in emails (1-based)
    results, validCount, invalidCount, unknownCount,
    response,       \* what res.json sent, NoResponse before
    email, domain, mxRecords, mxHost, smtpResult,    \* verifyEmail's locals
    outcome,        \* what verifyEmail returned
    mxLookups,      \* dns.resolveMx calls made by the current verifyEmail call
    connections,    \* net.createConnection calls made by the current call
    socket,         \* none, open, ended (socket.end() called), destroyed
                    \* ('close' pending), closed
    step, buffer, result,                    \* verifyMailbox's locals
    sent,           \* what socket.write was given, in order
    whole,          \* a second session, given every server reply in one piece
    pending,        \* the part of the last reply not yet delivered
    mxAnswer,       \* history: how dns.resolveMx answered the current call:
                    \* none, error, empty, records
    codes,          \* history: the reply codes the switch read at steps 0..3
    closedBy,       \* history: what ended the connection: none, server,
                    \* timeout, error
    idle            \* whether the socket has had no traffic for the timeout's
                    \* period (socket.setTimeout(5000, ...))

vars == << emails, skip_smtp, pc, i, results, validCount, invalidCount, unknownCount,
           response, email, domain, mxRecords, mxHost, smtpResult, outcome,
           mxLookups,
           connections, socket, step, buffer, result, sent, idle, mxAnswer, codes,
           closedBy, whole, pending >>

batchVars == << emails, skip_smtp, i, results, validCount, invalidCount, unknownCount,
                response >>
callVars == << email, domain, mxRecords, mxHost, smtpResult, outcome, mxLookups,
              connections, mxAnswer >>
probeVars == << socket, step, buffer, result, sent, idle, codes, closedBy >>
fragVars == << whole, pending >>

NoResponse == [status |-> 0]
None == [set |-> FALSE]
Some(v) == [set |-> TRUE, val |-> v]

\* InitialResult taking the mailbox for valid until a reply says otherwise.
InitialResult_Valid == [valid |-> TRUE, reason |-> Reason("Unknown error during SMTP check", <<>>)]

\* let result = { valid: false, reason: 'Unknown error during SMTP check' }
InitialResult == [valid |-> FALSE, reason |-> Reason("Unknown error during SMTP check", <<>>)]

\* A session as net.createConnection and the declarations of verifyMailbox
\* leave it: step 0, empty buffer, the initial result, nothing written.
FreshSession ==
    [step |-> 0, buffer |-> <<>>, result |-> InitialResult, sent |-> <<>>,
     socket |-> "open", codes |-> <<>>, crashed |-> FALSE]

Init ==
    /\ emails \in EmailsBodies
    /\ skip_smtp \in BOOLEAN
    /\ pc = "request"
    /\ i = 1
    /\ results = <<>>
    /\ validCount = 0 /\ invalidCount = 0 /\ unknownCount = 0
    /\ response = NoResponse
    /\ email = <<"">> /\ domain = "" /\ mxRecords = <<>> /\ mxHost = ""
    /\ smtpResult = None /\ outcome = None
    /\ mxLookups = 0 /\ connections = 0
    /\ socket = "none" /\ step = 0 /\ buffer = <<>> /\ result = InitialResult
    /\ sent = <<>> /\ idle = FALSE
    /\ mxAnswer = "none" /\ codes = <<>> /\ closedBy = "none"
    /\ whole = FreshSession /\ pending = <<>>

\* ------------------------------------------------------------ verifyEmail
Outcome(status, reason) == [status |-> status, reason |-> reason]

\* mxRecords.sort((a, b) => a.priority - b.priority): a stable sort by
\* ascending priority.
RECURSIVE InsertByPriority(_, _)
InsertByPriority(sorted, r) ==
    IF sorted = <<>> THEN <<r>>
    ELSE IF r.priority < Head(sorted).priority THEN <<r>> \o sorted
         ELSE <<Head(sorted)>> \o InsertByPriority(Tail(sorted), r)

\* SortByPriority leaving the records in the order the resolver gave.
SortByPriority_AsReceived(recs) == recs

RECURSIVE SortByPriority(_)
SortByPriority(recs) ==
    IF recs = <<>> THEN <<>>
    ELSE InsertByPriority(SortByPriority(SubSeq(recs, 1, Len(recs) - 1)), recs[Len(recs)])

\* The outcome verifyEmail returns when the skip flag is set.
SkippedOutcome(d) ==
    IF d \in knownHardDomains
    THEN Outcome("unknown", Reason("The domain (${domain}) can receive emails (MX records are valid), but individual mailbox verification was skipped.", <<d>>))
    ELSE Outcome("unknown", Reason("SMTP verification skipped. Domain is configured to receive email, but mailbox validation not performed.", <<>>))

\* InterpretResult with a failed probe reported as invalid under a reason of
\* its own, whatever the domain.
InterpretResult_OwnReason(r, d) ==
    IF r.valid = TRUE
    THEN Outcome("valid", r.reason)
    ELSE Outcome("invalid", Reason("SMTP check failed", <<>>))

\* "Interpret the results": the outcome verifyEmail returns for the probe's
\* result r on domain d.
InterpretResult(r, d) ==
    IF r.valid = TRUE
    THEN Outcome("valid", r.reason)
    ELSE IF d \in knownHardDomains
         THEN Outcome("unknown", Reason("The domain (${domain}) is set up to receive emails (MX records are valid), but the server does not confirm individual mailboxes.", <<d>>))
         ELSE Outcome("invalid", r.reason)

\* verifyEmail(email, skip_smtp) up to its first await: the empty check, the
\* syntax check, and the MX query being issued.  The call's locals and the
\* probe's are fresh.  A TypeError thrown here rejects the promise of
\* verifyEmail and, through the await of the handler, the handler's own:
\* the route has no try/catch, the loop is left and no response is sent.
VerifyEmailCall ==
    /\ pc = "loop"
    /\ i <= Len(emails.items)
    /\ LET e  == emails.items[i]
           ok == PassesSyntax(e)
       IN  /\ email' = e
           /\ outcome' =
                IF Falsy(e)
                THEN Some(Outcome("invalid", Reason("No email provided.", <<>>)))
                ELSE IF SplitThrows(e)
                     THEN None
                ELSE IF ~validateEmail(e)
                     THEN Some(Outcome("invalid", Reason("Invalid email syntax.", <<>>)))
                     ELSE None
           /\ domain' = IF ok THEN DomainOf(e) ELSE ""
           /\ mxLookups' = IF ok THEN 1 ELSE 0
           /\ pc' = IF SplitThrows(e) THEN "rejected" ELSE IF ok THEN "mx" ELSE "ret"
    /\ mxRecords' = <<>>
    /\ mxHost' = ""
    /\ smtpResult' = None
    /\ connections' = 0
    /\ socket' = "none" /\ step' = 0 /\ buffer' = <<>> /\ result' = InitialResult
    /\ sent' = <<>> /\ idle' = FALSE
    /\ mxAnswer' = "none" /\ codes' = <<>> /\ closedBy' = "none"
    /\ UNCHANGED batchVars
    /\ UNCHANGED fragVars

\* The outcome of the catch block around the MX query.
DnsErrorOutcome ==
    Outcome("invalid", Reason("Domain not found or no valid DNS records.", <<>>))

\* NoMxOutcome reporting the domain as undecided.
NoMxOutcome_Unknown == Outcome("unknown", Reason("No MX records found for domain.", <<>>))

\* The outcome for a domain without MX records.
NoMxOutcome == Outcome("invalid", Reason("No MX records found for domain.", <<>>))

\* dns.resolveMx rejects (NXDOMAIN, network error, timeout): the catch block.
ResolveMxFails ==
    /\ pc = "mx"
    /\ mxAnswer' = "error"
    /\ outcome' = Some(DnsErrorOutcome)
    /\ pc' = "ret"
    /\ UNCHANGED << batchVars, email, domain, mxRecords, mxHost, smtpResult, mxLookups,
                    connections, probeVars >>
    /\ UNCHANGED fragVars

\* net.createConnection(25, mxHost) and the probe's initial locals.
OpenProbe ==
    /\ connections' = connections + 1
    /\ socket' = "open"
    /\ step' = 0
    /\ buffer' = <<>>
    /\ result' = InitialResult
    /\ sent' = <<>>
    /\ idle' = FALSE
    /\ codes' = <<>>
    /\ closedBy' = "none"

\* dns.resolveMx resolves with recs; verifyEmail runs on to its return (no
\* records, or the skip flag) or to the probe's connection being opened.
ResolveMxReturns(recs) ==
    /\ pc = "mx"
    /\ mxAnswer' = IF Len(recs) = 0 THEN "empty" ELSE "records"
    /\ IF Len(recs) = 0
       THEN /\ outcome' = Some(NoMxOutcome)
            /\ pc' = "ret"
            /\ UNCHANGED << mxRecords, mxHost, connections, probeVars >>
       ELSE /\ mxRecords' = SortByPriority(recs)
            /\ IF SkipRequested(skip_smtp)
               THEN /\ outcome' = Some(SkippedOutcome(domain))
                    /\ pc' = "ret"
                    /\ UNCHANGED << mxHost, connections, probeVars >>
               ELSE /\ mxHost' = mxRecords'[1].exchange
                    /\ OpenProbe
                    /\ pc' = "probe"
                    /\ UNCHANGED outcome
    /\ UNCHANGED << batchVars, email, domain, smtpResult, mxLookups >>
    /\ UNCHANGED fragVars

\* ---------------------------------------------------------- verifyMailbox
Cmd(name, arg) == [cmd |-> name, arg |-> arg]

QUIT == Cmd("QUIT", <<>>)

\* What one run of the switch does: the new step and result, what it writes,
\* whether it clears the buffer and whether it calls socket.end().
Effect(st, res, writes, clear, ends) ==
    [step |-> st, result |-> res, writes |-> writes, clear |-> clear, ends |-> ends]

Invalid(text, arg) == [valid |-> FALSE, reason |-> Reason(text, arg)]

\* RecipientVerdict taking the greeting's code for the accepting one.
RecipientVerdict_Expects220(code) ==
    IF code = 220
    THEN [valid |-> TRUE, reason |-> Reason("Mailbox exists (SMTP check passed)", <<>>)]
    ELSE Invalid("Mailbox not found (SMTP ${code})", CodeToText(code))

\* case 3: the verdict on the reply to RCPT TO.
RecipientVerdict(code) ==
    IF code = 250
    THEN [valid |-> TRUE, reason |-> Reason("Mailbox exists (SMTP check passed)", <<>>)]
    ELSE Invalid("Mailbox not found (SMTP ${code})", CodeToText(code))

\* QuitReply recording a failure when the reply to QUIT is not 221.
QuitReply_Records(res, lastLine, code) ==
    IF code = 221
    THEN Effect(4, res, <<>>, FALSE, TRUE)
    ELSE Effect(4, Invalid("QUIT not accepted: ${lastLine}", lastLine), <<>>, FALSE, FALSE)

\* case 4: after QUIT; on 221 the socket is ended, the result is left as
\* it is and the buffer is not cleared.
QuitReply(res, lastLine, code) == Effect(4, res, <<>>, FALSE, code = 221)

\* switch (step) of the data handler, for the last line and its code.
Switch(st, res, lastLine, code, toEmail) ==
    CASE st = 0 ->
           IF code = 220
           THEN Effect(1, res, <<Cmd("HELO", <<"example.com">>)>>, TRUE, FALSE)
           ELSE Effect(99, Invalid("Unexpected SMTP response: ${lastLine}", lastLine),
                       <<QUIT>>, TRUE, FALSE)
      [] st = 1 ->
           IF code = 250
           THEN Effect(2, res, <<Cmd("MAIL FROM", fromEmail)>>, TRUE, FALSE)
           ELSE Effect(99, Invalid("HELO not accepted: ${lastLine}", lastLine),
                       <<QUIT>>, TRUE, FALSE)
      [] st = 2 ->
           IF code = 250
           THEN Effect(3, res, <<Cmd("RCPT TO", toEmail)>>, TRUE, FALSE)
           ELSE Effect(99, Invalid("MAIL FROM not accepted: ${lastLine}", lastLine),
                       <<QUIT>>, TRUE, FALSE)
      [] st = 3 ->
           Effect(4, RecipientVerdict(code), <<QUIT>>, TRUE, FALSE)
      [] st = 4 ->
           QuitReply(res, lastLine, code)
      [] OTHER ->
           Effect(st, res, <<>>, FALSE, FALSE)

\* The socket's state after socket.end(): the write side is closed, the
\* socket stays readable until the peer closes.
AfterEnd(sock) == IF sock = "open" THEN "ended" ELSE sock

\* socket.on('data') as a function of the session s it runs in: the chunk
\* is appended; when the buffer then ends in CRLF its last non-empty line
\* is classified.  A buffer holding only empty lines has no last line:
\* lastLine.substring throws inside the handler, which nothing catches, and
\* the process ends.
HandleData(s, chunk, toEmail) ==
    LET buf == s.buffer \o chunk
    IN  IF s.crashed THEN s
        ELSE IF ~EndsWithCRLF(buf)
        THEN [s EXCEPT !.buffer = LiveBuffer(buf)]
        ELSE IF ~HasLastLine(buf)
        THEN [s EXCEPT !.buffer = LiveBuffer(buf), !.crashed = TRUE]
        ELSE LET lastLine == LastLineOf(buf)
                 code == ParseInt(Substring03(lastLine))
                 eff  == Switch(s.step, s.result, lastLine, code, toEmail)
             IN  [step    |-> eff.step,
                  buffer  |-> IF eff.clear THEN <<>> ELSE LiveBuffer(buf),
                  result  |-> eff.result,
                  sent    |-> s.sent \o eff.writes,
                  socket  |-> IF eff.ends THEN AfterEnd(s.socket) ELSE s.socket,
                  codes   |-> IF s.step \in 0..3 THEN Append(s.codes, code) ELSE s.codes,
                  crashed |-> FALSE]

\* The session of the probe under way.
Session ==
    [step |-> step, buffer |-> buffer, result |-> result, sent |-> sent,
     socket |-> socket, codes |-> codes, crashed |-> FALSE]

\* A 'data' event on the probe's socket.
Receive(chunk) ==
    /\ pc = "probe"
    /\ socket \in {"open", "ended"}
    /\ \E s \in { HandleData(Session, chunk, email) } :
           /\ idle' = FALSE
           /\ pc' = IF s.crashed THEN "crashed" ELSE pc
           /\ step' = s.step
           /\ buffer' = s.buffer
           /\ result' = s.result
           /\ sent' = s.sent
           /\ socket' = s.socket
           /\ codes' = s.codes
    /\ UNCHANGED << batchVars, callVars, closedBy >>

\* The 'data' events of the model: those that leave no more than MaxBuf
\* bytes of lines still to be read.
OnData(chunk) ==
    /\ Len(LiveBuffer(buffer \o chunk)) <= MaxBuf
    /\ Receive(chunk)
    /\ UNCHANGED fragVars

\* The timeout's period passes with no traffic on the socket; any traffic
\* starts the period again (the timer of socket.setTimeout is an idle timer).
Tick ==
    /\ pc = "probe"
    /\ socket \in {"open", "ended"}
    /\ ~idle
    /\ idle' = TRUE
    /\ UNCHANGED << batchVars, callVars, pc, socket, step, buffer, result, sent, codes,
                    closedBy >>
    /\ UNCHANGED fragVars

\* OnTimeout resolving the probe from the timeout callback and leaving the
\* socket as it is.
OnTimeout_ResolvesOpen ==
    /\ pc = "probe"
    /\ socket \in {"open", "ended"}
    /\ idle
    /\ result' = Invalid("SMTP connection timed out", <<>>)
    /\ closedBy' = "timeout"
    /\ smtpResult' = Some(result')
    /\ outcome' = Some(InterpretResult(result', domain))
    /\ pc' = "ret"
    /\ UNCHANGED << batchVars, email, domain, mxRecords, mxHost, mxLookups, connections,
                    mxAnswer, socket, step, buffer, sent, idle, codes >>
    /\ UNCHANGED fragVars

\* OnTimeout taking leave of the server first: QUIT is written before the
\* socket is destroyed.
OnTimeout_QuitsFirst ==
    /\ pc = "probe"
    /\ socket \in {"open", "ended"}
    /\ idle
    /\ result' = Invalid("SMTP connection timed out", <<>>)
    /\ sent' = Append(sent, QUIT)
    /\ socket' = "destroyed"
    /\ closedBy' = "timeout"
    /\ UNCHANGED << batchVars, callVars, pc, step, buffer, idle, codes >>
    /\ UNCHANGED fragVars

\* The callback of socket.setTimeout(5000, ...): the socket was idle for the
\* whole period.
OnTimeout ==
    /\ pc = "probe"
    /\ socket \in {"open", "ended"}
    /\ idle
    /\ result' = Invalid("SMTP connection timed out", <<>>)
    /\ socket' = "destroyed"
    /\ closedBy' = "timeout"
    /\ UNCHANGED << batchVars, callVars, pc, step, buffer, sent, idle, codes >>
    /\ UNCHANGED fragVars

\* socket.on('error'): connection refused, reset, unreachable host.
OnError ==
    /\ pc = "probe"
    /\ socket \in {"open", "ended"}
    /\ result' = Invalid("SMTP connection error: ${err.message}", <<"ECONNRESET">>)
    /\ socket' = "destroyed"
    /\ closedBy' = "error"
    /\ UNCHANGED << batchVars, callVars, pc, step, buffer, sent, idle, codes >>
    /\ UNCHANGED fragVars

\* The server closes the connection: the socket ends and is destroyed, its
\* 'close' event is pending.
ServerClose ==
    /\ pc = "probe"
    /\ socket \in {"open", "ended"}
    /\ socket' = "destroyed"
    /\ closedBy' = "server"
    /\ UNCHANGED << batchVars, callVars, pc, step, buffer, result, sent, idle, codes >>
    /\ UNCHANGED fragVars

\* socket.on('close'): resolve(result); verifyEmail resumes with the probe's
\* result and returns its interpretation.
OnClose ==
    /\ pc = "probe"
    /\ socket = "destroyed"
    /\ socket' = "closed"
    /\ smtpResult' = Some(result)
    /\ outcome' = Some(InterpretResult(result, domain))
    /\ pc' = "ret"
    /\ UNCHANGED << batchVars, email, domain, mxRecords, mxHost, mxLookups, connections,
                    mxAnswer, step, buffer, result, sent, idle, codes, closedBy >>
    /\ UNCHANGED fragVars

\* ------------------------------------------------------ POST /verify/batch
ErrorResponse(code, message) == [status |-> code, error |-> message]

\* TooLarge refusing a list that is exactly as long as the limit.
TooLarge_AtLimit(list) == Len(list) >= BatchLimit

\* emails.length > 1000
TooLarge(list) == Len(list) > BatchLimit

\* The handler up to its loop: the request is refused when emails is no
\* list or is longer than the limit.
PostVerifyBatch ==
    /\ pc = "request"
    /\ IF ~emails.isArray
       THEN /\ response' = ErrorResponse(400, "Please provide an array of emails.")
            /\ pc' = "responded"
       ELSE IF TooLarge(emails.items)
       THEN /\ response' = ErrorResponse(400, "Batch size limit exceeded (max 1000).")
            /\ pc' = "responded"
       ELSE /\ response' = response
            /\ pc' = "loop"
    /\ results' = <<>>
    /\ validCount' = 0 /\ invalidCount' = 0 /\ unknownCount' = 0
    /\ i' = 1
    /\ UNCHANGED << emails, skip_smtp, callVars, probeVars >>
    /\ UNCHANGED fragVars

\* results.push({ email, ...result })
ResultEntry(e, o) == [email |-> e, status |-> o.status, reason |-> o.reason]

\* Tally without the last branch of the else-if chain.
Tally_NoUnknown(status, name) == IF status = name /\ name /= "unknown" THEN 1 ELSE 0

\* "Tally counts": the increment of the counter named status.
Tally(status, name) == IF status = name THEN 1 ELSE 0

\* Push putting the new entry in front of the list (unshift).
Push_Front(list, entry) == <<entry>> \o list

\* results.push(entry)
Push(list, entry) == Append(list, entry)

\* The loop body after `await verifyEmail(...)`: the result is pushed and
\* tallied, the loop moves on.
BatchContinue ==
    /\ pc = "ret"
    /\ outcome.set
    /\ results' = Push(results, ResultEntry(email, outcome.val))
    /\ validCount' = validCount + Tally(outcome.val.status, "valid")
    /\ invalidCount' = invalidCount + Tally(outcome.val.status, "invalid")
    /\ unknownCount' = unknownCount + Tally(outcome.val.status, "unknown")
    /\ i' = i + 1
    /\ pc' = "loop"
    /\ UNCHANGED << emails, skip_smtp, response, callVars, probeVars >>
    /\ UNCHANGED fragVars

\* const summary = { total: emails.length, ... }
Summary ==
    [total |-> Len(emails.items), valid |-> validCount, invalid |-> invalidCount,
     unknown |-> unknownCount]

\* The loop is over: res.json({ summary, results }).
BatchRespond ==
    /\ pc = "loop"
    /\ i > Len(emails.items)
    /\ response' = [status |-> 200, summary |-> Summary, results |-> results]
    /\ pc' = "responded"
    /\ UNCHANGED << emails, skip_smtp, i, results, validCount, invalidCount, unknownCount,
                    callVars, probeVars >>
    /\ UNCHANGED fragVars

\* ---------------------------------------------------------- specification
ResolveMx == ResolveMxFails \/ \E recs \in MxReplies : ResolveMxReturns(recs)

Next ==
    \/ PostVerifyBatch
    \/ VerifyEmailCall
    \/ ResolveMx
    \/ \E chunk \in Chunks : OnData(chunk)
    \/ Tick
    \/ OnTimeout
    \/ OnError
    \/ ServerClose
    \/ OnClose
    \/ BatchContinue
    \/ BatchRespond

Spec == Init /\ [][Next]_vars

\* The program's own steps are taken when they can be: the event loop runs
\* pending callbacks, time passes, the idle timer fires when its period has
\* elapsed without traffic, and the resolver answers.  What the mail server
\* does (OnData, OnError, ServerClose) is under no obligation.
Fairness ==
    /\ WF_vars(PostVerifyBatch)
    /\ WF_vars(VerifyEmailCall)
    /\ WF_vars(ResolveMx)
    /\ WF_vars(Tick)
    /\ WF_vars(OnTimeout)
    /\ WF_vars(OnClose)
    /\ WF_vars(BatchContinue)
    /\ WF_vars(BatchRespond)

FairSpec == Spec /\ Fairness

\* ------------------------------------------- one reply stream, two framings
\* Whole server replies: single lines, and replies of two lines (a
\* continuation line "250-" and the final line "250").
Replies ==
    { <<"2", "2", "0", CR, LF>>, <<"2", "5", "0", CR, LF>>, <<"5", "5", "0", CR, LF>>,
      <<"2", "2", "1", CR, LF>>,
      <<"2", "2", "0", "-", CR, LF, "2", "2", "0", CR, LF>>,
      <<"2", "5", "0", "-", CR, LF, "2", "5", "0", CR, LF>> }

\* The probe of user@example.com right after its connection is opened.
FragInit ==
    /\ emails = [isArray |-> TRUE, items |-> << <<"user", "example.com">> >>]
    /\ skip_smtp = FALSE
    /\ pc = "probe"
    /\ i = 1
    /\ results = <<>>
    /\ validCount = 0 /\ invalidCount = 0 /\ unknownCount = 0
    /\ response = NoResponse
    /\ email = <<"user", "example.com">> /\ domain = "example.com"
    /\ mxRecords = <<[exchange |-> "mx1", priority |-> 10],
                     [exchange |-> "mx2", priority |-> 20]>>
    /\ mxHost = "mx1"
    /\ smtpResult = None /\ outcome = None
    /\ mxLookups = 1 /\ connections = 1
    /\ socket = "open" /\ step = 0 /\ buffer = <<>> /\ result = InitialResult
    /\ sent = <<>> /\ idle = FALSE
    /\ mxAnswer = "records" /\ codes = <<>> /\ closedBy = "none"
    /\ whole = FreshSession /\ pending = <<>>

\* The server sends its next reply: the second session receives it in one
\* 'data' event, the probe is yet to receive it.
FragReply(reply) ==
    /\ pc = "probe"
    /\ pending = <<>>
    /\ whole' = HandleData(whole, reply, email)
    /\ pending' = reply
    /\ UNCHANGED << batchVars, callVars, probeVars, pc >>

\* The probe receives the next n bytes of the reply in one 'data' event.
FragDeliver(n) ==
    /\ Receive(SubSeq(pending, 1, n))
    /\ pending' = SubSeq(pending, n + 1, Len(pending))
    /\ UNCHANGED whole

FragNext ==
    \/ \E reply \in Replies : FragReply(reply)
    \/ \E n \in 1..Len(pending) : FragDeliver(n)

FragSpec == FragInit /\ [][FragNext]_vars

\* ----------------------------------------------------------------- claims
\* A verifyEmail call has returned (its outcome is in `outcome`).
Returned == pc = "ret" /\ outcome.set

\* The current call got past the syntax check, its domain resolved to at
\* least one MX record, and the probe has returned.
ProbeReturned == Returned /\ smtpResult.set

\* C1, as claimed: for every address that passes the syntax check and whose
\* domain has MX records, with the skip flag not set, a valid probe gives
\* status valid and a probe that is not valid gives status invalid with the
\* probe's reason -- for every domain, the known-hard ones included.
C1_ProbeOutcomeMappedEveryDomain ==
    (ProbeReturned /\ PassesSyntax(email) /\ mxAnswer = "records" /\ skip_smtp /= TRUE)
        => IF smtpResult.val.valid
           THEN outcome.val.status = "valid"
           ELSE outcome.val = Outcome("invalid", smtpResult.val.reason)

\* C1, amended: a valid probe gives status valid (with the probe's reason)
\* for every domain; a probe that is not valid gives status invalid with the
\* probe's reason unchanged for a domain outside the known-hard list, and
\* status unknown for a domain in it.
C1_ProbeOutcomeMapped ==
    (ProbeReturned /\ PassesSyntax(email) /\ mxAnswer = "records" /\ skip_smtp /= TRUE)
        => IF smtpResult.val.valid
           THEN outcome.val = Outcome("valid", smtpResult.val.reason)
           ELSE IF domain \in knownHardDomains
                THEN outcome.val.status = "unknown"
                ELSE outcome.val = Outcome("invalid", smtpResult.val.reason)

\* A rejected probe of an ordinary domain has been mapped to invalid.
C1_Witness ==
    /\ ProbeReturned
    /\ ~smtpResult.val.valid
    /\ smtpResult.val.reason.text = "HELO not accepted: ${lastLine}"
    /\ domain \notin knownHardDomains
    /\ outcome.val.status = "invalid"

\* C2: a syntactically valid address whose domain has MX records, verified
\* with the skip flag true, gets status unknown, and no probe connection is
\* opened at any point of a call made with the skip flag true.
C2_SkipGivesUnknown ==
    /\ skip_smtp = TRUE => (connections = 0 /\ socket = "none")
    /\ (Returned /\ skip_smtp = TRUE /\ PassesSyntax(email) /\ mxAnswer = "records")
          => outcome.val.status = "unknown"

\* A skipped verification of a resolvable domain has returned.
C2_Witness ==
    /\ Returned /\ skip_smtp = TRUE /\ mxAnswer = "records"
    /\ outcome.val.status = "unknown"
    /\ connections = 0

\* C3: a syntactically valid address whose MX lookup fails or returns no
\* records gets status invalid, whatever the skip flag and the domain.
C3_NoMxGivesInvalid ==
    (Returned /\ PassesSyntax(email) /\ mxAnswer \in {"error", "empty"})
        => outcome.val.status = "invalid"

\* A known-hard domain without MX records, verified with the skip flag set,
\* has been reported invalid.
C3_Witness ==
    /\ Returned /\ mxAnswer = "empty"
    /\ skip_smtp = TRUE
    /\ domain \in knownHardDomains
    /\ outcome.val.status = "invalid"

\* C4: the stages run in the order syntax check, MX resolution, probe, and a
\* later stage never runs once an earlier one produced the outcome: no MX
\* lookup for an empty or syntactically invalid address, no probe connection
\* unless the lookup returned records and the skip flag is not set.
C4_StagesShortCircuit ==
    /\ (Falsy(email) \/ ~validateEmail(email)) => (mxLookups = 0 /\ mxAnswer = "none")
    /\ mxAnswer /= "none" => mxLookups = 1
    /\ (mxAnswer \in {"none", "error", "empty"} \/ skip_smtp = TRUE)
          => (connections = 0 /\ socket = "none")
    /\ connections > 0 => (mxLookups = 1 /\ mxAnswer = "records")

\* An address without '@' has been refused without an MX lookup.
C4_Witness ==
    /\ Returned
    /\ ~Falsy(email) /\ ~validateEmail(email)
    /\ mxLookups = 0 /\ connections = 0
    /\ outcome.val.status = "invalid"

\* The probe has given up at the greeting, greeting-ack or sender-ack step.
Aborted == pc = "probe" /\ step = 99

\* The probe has returned a result that is not valid and its connection is
\* closed.
ResolvedNotValid == smtpResult.set /\ ~smtpResult.val.valid /\ socket = "closed"

\* C5: an unexpected reply code at the greeting, greeting-ack or sender-ack
\* step records an outcome that is not valid and sends QUIT, and from then
\* on the connection is always closed in the end and the probe resolved with
\* an outcome that is not valid.
C5_AbortAlwaysCloses ==
    /\ [](Aborted => (~result.valid /\ sent /= <<>> /\ sent[Len(sent)] = QUIT))
    /\ (Aborted ~> ResolvedNotValid)

\* C6: every probe session terminates: whatever the server does, a probe
\* that was started resolves in the end.
C6_ProbeTerminates == (pc = "probe") ~> (pc = "ret" /\ smtpResult.set)

\* C7: a verifyMailbox invocation opens exactly one connection, and whenever
\* it has resolved that connection is closed.
C7_ResolvedMeansClosed ==
    /\ connections <= 1
    /\ pc = "probe" => connections = 1
    /\ smtpResult.set => (connections = 1 /\ socket = "closed")

\* A probe that timed out has resolved, its connection closed.
C7_Witness ==
    /\ smtpResult.set
    /\ closedBy = "timeout"
    /\ socket = "closed"
    /\ connections = 1

\* The server answered the four steps with 220, 250, 250, 250.
AllExpected == codes = <<220, 250, 250, 250>>

RecipientRejected == Len(codes) = 4 /\ SubSeq(codes, 1, 3) = <<220, 250, 250>> /\ codes[4] /= 250

\* The result is the recipient step's rejection and its reason names code n.
NamesCode(r, n) ==
    /\ ~r.valid
    /\ r.reason.text = "Mailbox not found (SMTP ${code})"
    /\ ParseInt(r.reason.arg) = n

C10_SummaryAddsUp ==
    response.status = 200 =>
        /\ response.summary.total
             = response.summary.valid + response.summary.invalid + response.summary.unknown
        /\ response.summary.total = Len(emails.items)

\* A batch of two has been answered with one address unknown and one invalid.
C10_Witness ==
    /\ response.status = 200
    /\ response.summary.total = 2
    /\ response.summary.unknown = 1
    /\ response.summary.invalid = 1

\* The outcome verifyEmail gives for an address whatever the resolver and the
\* mail server do: the two checks made before any lookup.
IsEarlyOutcome(e, o) ==
    /\ Falsy(e) => o = Outcome("invalid", Reason("No email provided.", <<>>))
    /\ (~Falsy(e) /\ ~PassesSyntax(e))
          => o = Outcome("invalid", Reason("Invalid email syntax.", <<>>))

\* C11: the results list of the batch response has the length of the input
\* list and its k-th entry carries the k-th input address with that
\* address's outcome: while the loop runs, results holds one entry for each
\* entry already verified, in input order, the last one being the outcome
\* verifyEmail has just returned for the address it was called with; the
\* response carries that list, as long as the input.
C11_ResultsFollowInput ==
    /\ (emails.isArray /\ pc \in {"loop", "mx", "probe", "ret"}) => Len(results) = i - 1
    /\ \A k \in 1..Len(results) :
          /\ results[k].email = emails.items[k]
          /\ IsEarlyOutcome(emails.items[k],
                            Outcome(results[k].status, results[k].reason))
    /\ (pc = "loop" /\ i > 1)
          => results[i - 1] = ResultEntry(emails.items[i - 1], outcome.val)
    /\ (pc \in {"mx", "probe", "ret"}) => email = emails.items[i]
    /\ response.status = 200
          => /\ response.results = results
             /\ Len(response.results) = Len(emails.items)

C11_Witness ==
    /\ response.status = 200
    /\ Len(emails.items) = 2
    /\ emails.items[1] /= emails.items[2]
    /\ response.results[1].status /= response.results[2].status
    /\ response.results[2].email = emails.items[2]

\* The request is over without a response: an exception or a rejection
\* ended the handler.
Aborted_Batch == pc \in {"crashed", "rejected"}

\* C12: no failure while verifying one entry -- an empty, malformed or
\* non-string entry, a failed MX lookup, a probe rejection, a socket error,
\* a timeout -- aborts the batch: an accepted batch is never left without
\* its response, and its response carries exactly one result for each
\* input entry.
C12_NoEntryAbortsBatch ==
    (emails.isArray /\ Len(emails.items) <= BatchLimit)
        => /\ ~Aborted_Batch
           /\ pc = "responded"
                => /\ response.status = 200
                   /\ Len(response.results) = Len(emails.items)

\* The request was refused: the 400 response is the handler's last step.
Refused == pc = "responded" /\ response.status = 400

\* Nothing of any entry has been processed: no verifyEmail call was made,
\* hence no MX lookup and no probe connection.
NothingProcessed ==
    /\ results = <<>> /\ i = 1
    /\ outcome = None /\ smtpResult = None
    /\ mxLookups = 0 /\ connections = 0 /\ mxAnswer = "none" /\ socket = "none"

\* C13: a batch request whose emails field is no list, or is a list of more
\* than 1000 entries, is refused before any entry is processed (no MX
\* lookup, no probe); a list of exactly 1000 entries is accepted.
C13_OversizeRefusedUnprocessed ==
    /\ (pc /= "request" /\ (~emails.isArray \/ Len(emails.items) > 1000))
          => (Refused /\ NothingProcessed)
    /\ (pc /= "request" /\ emails.isArray /\ Len(emails.items) <= 1000)
          => ~Refused
    /\ (emails.isArray /\ Len(emails.items) = 1000 /\ pc = "responded")
          => (response.status = 200 /\ Len(response.results) = 1000)

C13_Witness ==
    /\ Refused
    /\ emails.isArray
    /\ Len(emails.items) = 1001
    /\ NothingProcessed

\* C14: every failure inside the pipeline for a string address is returned
\* by verifyEmail as an outcome, and none leaves it as a thrown or rejected
\* fault: while the address at hand is a string no exception has escaped,
\* and a call that is over has returned a status and a reason.
C14_FailuresReturnedAsOutcomes ==
    IsString(email)
        => /\ pc \notin {"crashed", "rejected"}
           /\ pc = "ret"
                => /\ outcome.set
                   /\ outcome.val.status \in {"valid", "invalid", "unknown"}

\* C15: for the same sequence of server replies the probe's outcome does not
\* depend on how the bytes are cut into 'data' events: once every byte of
\* the replies sent so far has been delivered, the probe has written the
\* same commands and recorded the same result as a session that received
\* each reply in one piece -- also when the lines of a multi-line reply
\* come in separate events.
C15_FramingIndependent ==
    (pc = "probe" /\ pending = <<>>)
        => /\ sent = whole.sent
           /\ result = whole.result
           /\ step = whole.step

\* C16: when the probe's timeout fires, in whichever step the session is,
\* the connection is destroyed at once, no further command is written, and
\* the probe resolves not valid with the timed-out reason: in every step of
\* a probe that ends with the timeout having fired, the socket is
\* destroyed or closed, nothing was written, the recorded result is the
\* timed-out one, and so is the result the probe has resolved with.
C16_TimeoutDestroysAndResolves ==
    [][ (pc = "probe" /\ closedBy' = "timeout")
          => /\ socket' \in {"destroyed", "closed"}
             /\ sent' = sent
             /\ result' = [valid |-> FALSE,
                           reason |-> Reason("SMTP connection timed out", <<>>)]
             /\ smtpResult'.set => smtpResult'.val = result' ]_vars

C16_Witness ==
    /\ closedBy = "timeout"
    /\ step = 4
    /\ socket = "closed"
    /\ ProbeReturned
    /\ ~smtpResult.val.valid
    /\ smtpResult.val.reason.text = "SMTP connection timed out"

\* C17: when the connection closes the probe resolves with the outcome
\* recorded last; when it closes before any reply was classified, with no
\* timeout and no error, the probe resolves not valid with the default
\* 'unknown error' reason.
C17_CloseResolvesLastRecorded ==
    smtpResult.set
        => /\ socket = "closed"
           /\ smtpResult.val = result
           /\ (closedBy = "server" /\ codes = <<>>)
                => /\ ~smtpResult.val.valid
                   /\ smtpResult.val.reason = Reason("Unknown error during SMTP check", <<>>)

C17_Witness ==
    /\ ProbeReturned
    /\ closedBy = "server"
    /\ codes = <<>>
    /\ sent = <<>>
    /\ smtpResult.val.reason.text = "Unknown error during SMTP check"

\* The host is the exchange of a record of recs with the lowest priority.
IsPreferredHost(host, recs) ==
    \E k \in 1..Len(recs) :
        /\ recs[k].exchange = host
        /\ \A j \in 1..Len(recs) : recs[k].priority <= recs[j].priority

\* C18: verifyEmail makes at most one probe attempt for an address, to the
\* exchange host of an MX record with the minimum priority; when that
\* attempt fails no other record is tried and the host is not tried again.
C18_OneAttemptPreferredHost ==
    /\ connections <= 1
    /\ connections = 1 => IsPreferredHost(mxHost, mxRecords)
    /\ (pc = "probe" \/ ProbeReturned) => connections = 1
    /\ socket /= "none" => connections = 1

C18_Witness ==
    /\ ProbeReturned
    /\ ~smtpResult.val.valid
    /\ connections = 1
    /\ Len(mxRecords) = 2
    /\ mxHost = "mx1"
    /\ socket = "closed"

\* C19: the entries of a batch are verified strictly one after the other:
\* while an entry is being verified every earlier entry has its result and
\* no later entry has been started, and outside a probe -- before a call,
\* between two calls, after the last -- no probe connection is open, so
\* that the connection of one entry is closed before the next entry starts
\* and never more than one is open.
C19_EntriesStrictlySequential ==
    /\ pc \in {"mx", "probe", "ret"}
          => /\ i \in 1..Len(emails.items)
             /\ email = emails.items[i]
             /\ Len(results) = i - 1
    /\ pc \in {"request", "loop", "mx", "ret", "responded"}
          => socket \in {"none", "closed"}
    /\ socket \in {"open", "ended", "destroyed"} => connections = 1

C19_Witness ==
    /\ pc = "probe"
    /\ i = 2
    /\ socket = "open"
    /\ Len(results) = 1
    /\ results[1].status = "valid"
    /\ results[1].email = emails.items[1]

\* The recipient step has classified its reply: steps 0 to 3 have each
\* classified one.
VerdictRecorded == pc \in {"probe", "ret"} /\ Len(codes) = 4

\* C20, as claimed: once the recipient step has recorded its verdict, that
\* verdict is what the probe resolves with; no later event -- the reply to
\* QUIT or its absence, an idle timeout, a socket error, the close by
\* either side -- replaces it.
C20_VerdictNeverReplaced ==
    VerdictRecorded
        => /\ result = RecipientVerdict(codes[4])
           /\ smtpResult.set => smtpResult.val = RecipientVerdict(codes[4])

\* C20, amended: the recorded verdict is kept through the reply to QUIT,
\* its absence and the close by the server, and is what the probe then
\* resolves with; an idle timeout or a socket error that happens before the
\* close replaces it with its own not-valid result, which is then what the
\* probe resolves with.
C20_VerdictKeptUnlessTimeoutOrError ==
    VerdictRecorded
        => /\ closedBy \in {"none", "server"} => result = RecipientVerdict(codes[4])
           /\ closedBy = "timeout"
                => result = [valid |-> FALSE,
                             reason |-> Reason("SMTP connection timed out", <<>>)]
           /\ closedBy = "error"
                => /\ ~result.valid
                   /\ result.reason.text = "SMTP connection error: ${err.message}"
           /\ smtpResult.set => smtpResult.val = result

C20_Witness ==
    /\ ProbeReturned
    /\ Len(codes) = 4
    /\ codes[4] = 250
    /\ closedBy = "timeout"
    /\ ~smtpResult.val.valid
    /\ outcome.val.status /= "valid"

\* The names of the commands written so far, in order.
SentNames == [k \in 1..Len(sent) |-> sent[k].cmd]

\* The sequences the commands may form: a prefix of HELO, MAIL FROM,
\* RCPT TO, followed or not by QUIT.
CommandPrefixes ==
    { <<>>, <<"HELO">>, <<"HELO", "MAIL FROM">>, <<"HELO", "MAIL FROM", "RCPT TO">> }

WellFormedCommands ==
    \/ SentNames \in CommandPrefixes
    \/ /\ sent /= <<>>
       /\ sent[Len(sent)] = QUIT
       /\ SubSeq(SentNames, 1, Len(sent) - 1) \in CommandPrefixes

Written(name) == \E k \in 1..Len(sent) : sent[k].cmd = name

\* The server's first n replies, each taken whole, carry the expected
\* codes: 220, then 250 for each further one.
RepliedAsExpected(n) ==
    /\ Len(whole.codes) >= n
    /\ \A k \in 1..n : whole.codes[k] = (IF k = 1 THEN 220 ELSE 250)

\* C21: in every probe session, for every sequence of server replies, the
\* commands written form a prefix of HELO, MAIL FROM, RCPT TO followed or
\* not by QUIT, each written at most once and nothing after QUIT; MAIL FROM
\* is written only after a 220 greeting and a 250 reply to HELO, RCPT TO
\* only after a 250 reply to MAIL FROM; and no DATA is ever written.
C21_CommandsFollowReplies ==
    /\ WellFormedCommands
    /\ ~Written("DATA")
    /\ Written("HELO") => RepliedAsExpected(1)
    /\ Written("MAIL FROM") => RepliedAsExpected(2)
    /\ Written("RCPT TO") => RepliedAsExpected(3)

====
